---- MODULE Spec2Model ----
(***************************************************************************)
(* The dependency-driven build scheduler of makepanda.py: the task list    *)
(* DEPENDENCYQUEUE, the worker threads (BuildWorker), the readiness test   *)
(* (AllSourcesReady), the parallel scheduler (ParallelMake), the           *)
(* single-threaded fallback (SequentialMake) and the call site that saves  *)
(* the dependency cache in a finally clause.                               *)
(***************************************************************************)
EXTENDS Integers, Sequences, FiniteSets, TLC

(* ------------------------------ bounds -------------------------------- *)

\* Largest number of tasks of a generated task list; task i is registered
\* i-th and its output list task[2] is [i].
NT == 3

\* Number of names that are no task's output (external file paths).
NumLeaves == 1

\* Largest number of names a task of a generated task list depends on.
MaxSrc == 1

\* Largest value of THREADCOUNT (--threads).
MaxThreads == 2

\* Number of output names the TargetAdd calls of the registry runs choose from.
MaxTargets == 2

\* Largest number of TargetAdd calls in a registry run.
MaxCalls == 3

(* --------------------------- program constants ------------------------ *)

\* taskqueue.put(0): the stop signal of a worker.
StopSignal == 0

\* donequeue.put(0): the failure sentinel.
FailureSentinel == 0

(* ------------------------------ the tasks ----------------------------- *)

\* Names that are no task's output (external file paths).
LeafNames == {0 - i : i \in 1..NumLeaves}

\* A task is [action, [name, inputs, opts], [name], deps, altsources]; the
\* fields the scheduler reads are task[1][1], task[2], task[3] and task[4].
\* The i-th task registered has the output list [i].
MakeTask(i, inputs, deps, altsources) ==
    [outputs |-> {i}, inputs |-> inputs, deps |-> deps, altsources |-> altsources]

\* The lists task[1][1], task[3] and task[4] a task's names can be put in.
Kinds == {"inputs", "deps", "altsources"}

\* The i-th task with the names srcs in the list of the given kind.
TaskOfKind(i, kind, srcs) ==
    MakeTask(i, IF kind = "inputs" THEN srcs ELSE {},
                IF kind = "deps" THEN srcs ELSE {},
                IF kind = "altsources" THEN srcs ELSE {})

SourceSets(names) == {s \in SUBSET names : Cardinality(s) <= MaxSrc}

\* The task lists of n tasks over the names 1..n and the leaf names; the
\* tasks of one list name their sources in the same kind of list.
TaskListsOfLen(n) ==
    {[i \in 1..n |-> TaskOfKind(i, kind, srcs[i])] :
        kind \in Kinds, srcs \in [1..n -> SourceSets((1..n) \cup LeafNames)]}

TaskLists == UNION {TaskListsOfLen(n) : n \in 0..NT}

\* The diamond: A = 1 has no deps, B = 2 and C = 3 depend on A, D = 4 depends
\* on B and C.
Diamond ==
    <<MakeTask(1, {}, {}, {}), MakeTask(2, {1}, {}, {}),
      MakeTask(3, {}, {1}, {}), MakeTask(4, {2}, {3}, {})>>

\* Two tasks that list the leaf name -1 in every kind of source, the second
\* together with the output of the first.
LeafMix ==
    <<MakeTask(1, {0 - 1}, {}, {0 - 1}), MakeTask(2, {1, 0 - 1}, {0 - 1}, {0 - 1})>>

VARIABLES
    DEPENDENCYQUEUE,  \* the global task list, in registration order
    THREADCOUNT,      \* the concurrency width
    pc,               \* position of the main (scheduling) thread
    tasklist,         \* ParallelMake / SequentialMake: the local tasklist
    extras,           \* ParallelMake: extras of the scan in progress
    idx,              \* index of the for loop over tasklist
    pending,          \* ParallelMake: keys of the pending dictionary
    tasksqueued,      \* ParallelMake: tasks dispatched, result not yet taken
    taskqueue,        \* queue.Queue of tasks and stop signals
    donequeue,        \* queue.Queue of finished tasks and failure sentinels
    wpc,              \* position of each BuildWorker thread
    wtask,            \* the task a worker holds (0: none)
    needs,            \* history: what NeedsBuild answered for a task
    dispatched,       \* history: tasks put on taskqueue
    skipped,          \* history: tasks found up to date
    invoked,          \* history: invoked[t] = number of calls of t's action
    finished,         \* history: tasks whose action returned, or that were skipped
    raised,           \* history: tasks whose action raised
    justbuilt,        \* history: justbuilt[t] = number of JustBuilt calls for t
    saved,            \* history: number of SaveDependencyCache calls
    failseen,         \* history: the main thread took a failure sentinel
    aborted,          \* "no", or why the run is being aborted
    exitcode,         \* -1 while running, then the exit status
    TARGET_LIST,      \* the registered targets, in order of first registration
    calls,            \* history: the TargetAdd calls made, in order
    cachecalls,       \* history: the NeedsBuild and JustBuilt calls with their arguments
    stale             \* the files and the cache before the run: stale[t] iff
                      \* NeedsBuild is true for t then (empty: left open)

vars == <<DEPENDENCYQUEUE, THREADCOUNT, pc, tasklist, extras, idx, pending,
          tasksqueued, taskqueue, donequeue, wpc, wtask, needs, dispatched, skipped,
          invoked, finished, raised, justbuilt, saved, failseen, aborted, exitcode,
          TARGET_LIST, calls, cachecalls, stale>>

graphVars == <<DEPENDENCYQUEUE, THREADCOUNT, TARGET_LIST, calls, stale>>

schedVars == <<tasklist, extras, idx, pending, tasksqueued>>

histVars == <<needs, dispatched, skipped, invoked, finished, raised, justbuilt, saved,
              failseen, aborted, exitcode, cachecalls>>

Tasks == DOMAIN DEPENDENCYQUEUE

Workers == DOMAIN wpc

Outputs(t) == DEPENDENCYQUEUE[t].outputs

Sources(t) ==
    DEPENDENCYQUEUE[t].inputs \cup DEPENDENCYQUEUE[t].deps
        \cup DEPENDENCYQUEUE[t].altsources

\* The tasks that produce a name.
Producers(n) == {t \in Tasks : n \in Outputs(t)}

Range(s) == {s[i] : i \in 1..Len(s)}

(* ------------------------ NeedsBuild, JustBuilt ------------------------ *)

\* Mutant: the alternate deps are passed along with task[3].
NeedsBuildArgs_WithAlt(task) ==
    [outputs |-> task.outputs, deps |-> task.deps \cup task.altsources]

\* NeedsBuild(task[2], task[3]): the outputs and the deps of the task.
NeedsBuildArgs(task) == [outputs |-> task.outputs, deps |-> task.deps]

\* JustBuilt(task[2], task[3]), JustBuilt(donetask[2], donetask[3]).
JustBuiltArgs(task) == [outputs |-> task.outputs, deps |-> task.deps]

\* A call of NeedsBuild or JustBuilt as the cache sees it.
CacheCall(fn, args) == [fn |-> fn, outputs |-> args.outputs, deps |-> args.deps]

(* --------------------------- AllSourcesReady -------------------------- *)

\* Mutant: the loop over altsources is left out.
AllSourcesReady_NoAlt(task, pend) ==
    /\ \A x \in task.deps : x \notin pend
    /\ \A x \in task.inputs : x \notin pend

\* Mutant: the loop over task[3] is left out.
AllSourcesReady_NoDeps(task, pend) ==
    /\ \A x \in task.inputs : x \notin pend
    /\ \A x \in task.altsources : x \notin pend

\* Mutant: the first loop reads task[2] where the code reads task[3].
AllSourcesReady_WrongField(task, pend) ==
    /\ \A x \in task.outputs : x \notin pend
    /\ \A x \in task.inputs : x \notin pend
    /\ \A x \in task.altsources : x \notin pend

\* Mutant: the readiness test lets every task through.
AllSourcesReady_Always(task, pend) == TRUE

AllSourcesReady(task, pend) ==
    /\ \A x \in task.deps : x \notin pend
    /\ \A x \in task.inputs : x \notin pend
    /\ \A x \in task.altsources : x \notin pend

(* -------------------------------- Init -------------------------------- *)

Init ==
    /\ DEPENDENCYQUEUE \in TaskLists \cup {Diamond, LeafMix}
    /\ THREADCOUNT \in 0..MaxThreads
    /\ pc = "start"
    /\ tasklist = [i \in Tasks |-> i]
    /\ extras = <<>>
    /\ idx = 1
    /\ pending = {}
    /\ tasksqueued = 0
    /\ taskqueue = <<>>
    /\ donequeue = <<>>
    /\ wpc = <<>>
    /\ wtask = <<>>
    /\ needs = [t \in Tasks |-> "unknown"]
    /\ dispatched = {}
    /\ skipped = {}
    /\ invoked = [t \in Tasks |-> 0]
    /\ finished = {}
    /\ raised = {}
    /\ justbuilt = [t \in Tasks |-> 0]
    /\ saved = 0
    /\ failseen = FALSE
    /\ aborted = "no"
    /\ exitcode = -1
    /\ TARGET_LIST = <<>>
    /\ calls = <<>>
    /\ cachecalls = {}
    /\ stale = <<>>

(* ------------------------- RunDependencyQueue ------------------------- *)

\* Mutant: only the outputs of the first task are entered.
SeedPending_FirstOnly(tl) == IF Len(tl) = 0 THEN {} ELSE Outputs(tl[1])

\* Mutant: the inputs and deps of the tasks are entered as well.
SeedPending_WithSources(tl) ==
    UNION {Outputs(tl[i]) \cup Sources(tl[i]) : i \in 1..Len(tl)}

\* pending = {}; for task in tasklist: for target in task[2]: pending[target] = 1
SeedPending(tl) == UNION {Outputs(tl[i]) : i \in 1..Len(tl)}

\* for slave in range(THREADCOUNT): a BuildWorker thread is started.
StartWorkers(n) == [w \in 1..n |-> "get1"]

\* THREADCOUNT != 0: ParallelMake up to its while loop.
StartParallel ==
    /\ pc = "start"
    /\ THREADCOUNT # 0
    /\ pending' = SeedPending(tasklist)
    /\ wpc' = StartWorkers(THREADCOUNT)
    /\ wtask' = [w \in DOMAIN wpc' |-> 0]
    /\ tasksqueued' = 0
    /\ pc' = "loop"
    /\ UNCHANGED <<graphVars, tasklist, extras, idx, taskqueue, donequeue, histVars>>

\* THREADCOUNT == 0: SequentialMake up to its for loop.
StartSequential ==
    /\ pc = "start"
    /\ THREADCOUNT = 0
    /\ idx' = 1
    /\ pc' = "seq"
    /\ UNCHANGED <<graphVars, tasklist, extras, pending, tasksqueued, taskqueue,
                   donequeue, wpc, wtask, histVars>>

(* ----------------------------- BuildWorker ---------------------------- *)

\* Mutant: every task with an input freezes a Python program into an
\* executable.
FreezesExecutable_Any(task) == task.inputs # {}

\* task[0](*task[1]) is CompileAnything(name, inputs, opts) on the task's own
\* input list.  Of the compile steps only FreezePy changes that list: it pops
\* the first input when the first input ends in .py and the output is an
\* executable.  No TargetAdd call of the script registers an input ending in
\* .py, so no task of DEPENDENCYQUEUE takes that branch.
FreezesExecutable(task) == FALSE

\* DEPENDENCYQUEUE after the action of task t has run.
AfterAction(t) ==
    IF FreezesExecutable(DEPENDENCYQUEUE[t])
    THEN [DEPENDENCYQUEUE EXCEPT ![t].inputs = @ \ {CHOOSE n \in @ : TRUE}]
    ELSE DEPENDENCYQUEUE

\* The process is gone once the main thread has left with a non-zero status;
\* the workers are daemon threads.
Alive == ~(pc = "done" /\ exitcode # 0)

\* Mutant: the thread gives up when the timed get finds no task.
WorkerTimeout_Returns(w) ==
    /\ Alive
    /\ wpc[w] = "get1"
    /\ taskqueue = <<>>
    /\ wpc' = [wpc EXCEPT ![w] = "returned"]
    /\ UNCHANGED <<graphVars, pc, schedVars, taskqueue, donequeue, wtask, histVars>>

\* taskqueue.get(timeout=1) raises on an empty queue; the worker then blocks
\* in taskqueue.get().
WorkerTimeout(w) ==
    /\ Alive
    /\ wpc[w] = "get1"
    /\ taskqueue = <<>>
    /\ wpc' = [wpc EXCEPT ![w] = "get2"]
    /\ UNCHANGED <<graphVars, pc, schedVars, taskqueue, donequeue, wtask, histVars>>

\* task = taskqueue.get(...); task == 0: return.
WorkerTakeStop(w) ==
    /\ Alive
    /\ wpc[w] \in {"get1", "get2"}
    /\ taskqueue # <<>>
    /\ Head(taskqueue) = StopSignal
    /\ taskqueue' = Tail(taskqueue)
    /\ wpc' = [wpc EXCEPT ![w] = "returned"]
    /\ UNCHANGED <<graphVars, pc, schedVars, donequeue, wtask, histVars>>

\* task = taskqueue.get(...); task[0](*task[1]) is entered.
WorkerTakeTask(w) ==
    /\ Alive
    /\ wpc[w] \in {"get1", "get2"}
    /\ taskqueue # <<>>
    /\ Head(taskqueue) # StopSignal
    /\ taskqueue' = Tail(taskqueue)
    /\ wtask' = [wtask EXCEPT ![w] = Head(taskqueue)]
    /\ wpc' = [wpc EXCEPT ![w] = "exec"]
    /\ invoked' = [invoked EXCEPT ![Head(taskqueue)] = @ + 1]
    /\ UNCHANGED <<needs, graphVars, pc, schedVars, donequeue, dispatched, skipped, finished,
                   raised, justbuilt, saved, failseen, aborted, exitcode, cachecalls>>

\* Mutant: the worker records its own result: JustBuilt and del pending[...]
\* in the worker thread.
WorkerSucceed_Records(w) ==
    /\ Alive
    /\ wpc[w] = "exec"
    /\ donequeue' = Append(donequeue, wtask[w])
    /\ finished' = finished \cup {wtask[w]}
    /\ justbuilt' = [justbuilt EXCEPT ![wtask[w]] = @ + 1]
    /\ pending' = pending \ Outputs(wtask[w])
    /\ wtask' = [wtask EXCEPT ![w] = 0]
    /\ wpc' = [wpc EXCEPT ![w] = "get1"]
    /\ cachecalls' =
          cachecalls
              \cup {CacheCall("JustBuilt", JustBuiltArgs(DEPENDENCYQUEUE[wtask[w]]))}
    /\ UNCHANGED <<needs, graphVars, pc, tasklist, extras, idx, tasksqueued, taskqueue,
                   dispatched, skipped, invoked, raised, saved, failseen, aborted,
                   exitcode>>

\* The action returns: donequeue.put(task).
WorkerSucceed(w) ==
    /\ Alive
    /\ wpc[w] = "exec"
    /\ DEPENDENCYQUEUE' = AfterAction(wtask[w])
    /\ donequeue' = Append(donequeue, wtask[w])
    /\ finished' = finished \cup {wtask[w]}
    /\ wtask' = [wtask EXCEPT ![w] = 0]
    /\ wpc' = [wpc EXCEPT ![w] = "get1"]
    /\ UNCHANGED <<needs, THREADCOUNT, TARGET_LIST, calls, stale, pc, schedVars, taskqueue,
                   dispatched, skipped, invoked, raised, justbuilt, saved, failseen,
                   aborted, exitcode, cachecalls>>

\* Mutant: the exception is not caught; the thread ends and nothing is put on
\* donequeue.
WorkerFail_Uncaught(w) ==
    /\ Alive
    /\ wpc[w] = "exec"
    /\ raised' = raised \cup {wtask[w]}
    /\ wtask' = [wtask EXCEPT ![w] = 0]
    /\ wpc' = [wpc EXCEPT ![w] = "returned"]
    /\ UNCHANGED <<needs, graphVars, pc, schedVars, taskqueue, donequeue, dispatched,
                   skipped, invoked, finished, justbuilt, saved, failseen, aborted, exitcode,
                   cachecalls>>

\* Mutant: the except branch puts the task, as if its action had returned.
WorkerFail_ReportsTask(w) ==
    /\ Alive
    /\ wpc[w] = "exec"
    /\ donequeue' = Append(donequeue, wtask[w])
    /\ raised' = raised \cup {wtask[w]}
    /\ wtask' = [wtask EXCEPT ![w] = 0]
    /\ wpc' = [wpc EXCEPT ![w] = "get1"]
    /\ UNCHANGED <<needs, graphVars, pc, schedVars, taskqueue, dispatched, skipped, invoked,
                   finished, justbuilt, saved, failseen, aborted, exitcode, cachecalls>>

\* The action raises, before or after it has changed its input list:
\* donequeue.put(0).
WorkerFail(w) ==
    /\ Alive
    /\ wpc[w] = "exec"
    /\ DEPENDENCYQUEUE' \in {DEPENDENCYQUEUE, AfterAction(wtask[w])}
    /\ donequeue' = Append(donequeue, FailureSentinel)
    /\ raised' = raised \cup {wtask[w]}
    /\ wtask' = [wtask EXCEPT ![w] = 0]
    /\ wpc' = [wpc EXCEPT ![w] = "get1"]
    /\ UNCHANGED <<needs, THREADCOUNT, TARGET_LIST, calls, stale, pc, schedVars, taskqueue,
                   dispatched, skipped, invoked, finished, justbuilt, saved, failseen,
                   aborted, exitcode, cachecalls>>

BuildWorker(w) ==
    \/ WorkerTimeout(w)
    \/ WorkerTakeStop(w)
    \/ WorkerTakeTask(w)
    \/ WorkerSucceed(w)
    \/ WorkerFail(w)

(* ----------------------------- ParallelMake --------------------------- *)

\* Mutant: the loop is left as soon as nothing is in flight.
AfterScan_NoContinue(queued, remaining) ==
    IF queued = 0 THEN "kill" ELSE "get"

\* Mutant: the length of the list is tested before the count of tasks in flight.
AfterScan_ListFirst(queued, remaining) ==
    IF Len(remaining) = 0
    THEN "kill"
    ELSE IF queued = 0 THEN "loop" ELSE "get"

\* if tasksqueued == 0: (if len(tasklist) > 0: continue; break), else fall
\* through to donequeue.get().
AfterScan(queued, remaining) ==
    IF queued = 0
    THEN IF Len(remaining) > 0 THEN "loop" ELSE "kill"
    ELSE "get"

\* exit(msg) in the main thread: the run is abandoned and control unwinds
\* through the finally clause of the call site.
Exit(msg) ==
    /\ aborted' = msg
    /\ pc' = "finally"

\* del pending[target] for a key that is not in pending: the KeyError leaves
\* ParallelMake and RunDependencyQueue.  (The tasks here have one output, so
\* no other key was deleted before.)
DelRaises ==
    /\ aborted' = "KeyError"
    /\ pc' = "finally"

\* while True: if tasksqueued < THREADCOUNT: extras = [] and the for loop is
\* entered; otherwise the test of tasksqueued follows at once.
BeginScan ==
    /\ pc = "loop"
    /\ IF tasksqueued < THREADCOUNT
       THEN /\ extras' = <<>>
            /\ idx' = 1
            /\ pc' = "scan"
       ELSE /\ pc' = AfterScan(tasksqueued, tasklist)
            /\ UNCHANGED <<extras, idx>>
    /\ UNCHANGED <<graphVars, tasklist, pending, tasksqueued, taskqueue, donequeue,
                   wpc, wtask, histVars>>

\* Mutant: the task is dispatched whether or not a slot is free.
ScanDispatch_NoCap ==
    /\ pc = "scan"
    /\ idx <= Len(tasklist)
    /\ AllSourcesReady(DEPENDENCYQUEUE[tasklist[idx]], pending)
    /\ needs' = [needs EXCEPT ![tasklist[idx]] = "yes"]
    /\ tasksqueued' = tasksqueued + 1
    /\ taskqueue' = Append(taskqueue, tasklist[idx])
    /\ dispatched' = dispatched \cup {tasklist[idx]}
    /\ idx' = idx + 1
    /\ cachecalls' =
          cachecalls
              \cup {CacheCall("NeedsBuild", NeedsBuildArgs(DEPENDENCYQUEUE[tasklist[idx]]))}
    /\ UNCHANGED <<graphVars, pc, tasklist, extras, pending, donequeue, wpc, wtask,
                   skipped, invoked, finished, raised, justbuilt, saved, failseen,
                   aborted, exitcode>>

\* Mutant: a dispatched task is also kept in the remaining list.
ScanDispatch_KeepsTask ==
    /\ pc = "scan"
    /\ idx <= Len(tasklist)
    /\ tasksqueued < THREADCOUNT
    /\ AllSourcesReady(DEPENDENCYQUEUE[tasklist[idx]], pending)
    /\ needs' = [needs EXCEPT ![tasklist[idx]] = "yes"]
    /\ tasksqueued' = tasksqueued + 1
    /\ taskqueue' = Append(taskqueue, tasklist[idx])
    /\ dispatched' = dispatched \cup {tasklist[idx]}
    /\ extras' = Append(extras, tasklist[idx])
    /\ idx' = idx + 1
    /\ cachecalls' =
          cachecalls
              \cup {CacheCall("NeedsBuild", NeedsBuildArgs(DEPENDENCYQUEUE[tasklist[idx]]))}
    /\ UNCHANGED <<graphVars, pc, tasklist, pending, donequeue, wpc, wtask,
                   skipped, invoked, finished, raised, justbuilt, saved, failseen,
                   aborted, exitcode>>

\* One iteration of the for loop: the task is ready and NeedsBuild(task[2],
\* task[3]), which reads the disk and the cache, answers true.
ScanDispatch ==
    /\ pc = "scan"
    /\ idx <= Len(tasklist)
    /\ tasksqueued < THREADCOUNT
    /\ AllSourcesReady(DEPENDENCYQUEUE[tasklist[idx]], pending)
    /\ needs' = [needs EXCEPT ![tasklist[idx]] = "yes"]
    /\ tasksqueued' = tasksqueued + 1
    /\ taskqueue' = Append(taskqueue, tasklist[idx])
    /\ dispatched' = dispatched \cup {tasklist[idx]}
    /\ idx' = idx + 1
    /\ cachecalls' =
          cachecalls
              \cup {CacheCall("NeedsBuild", NeedsBuildArgs(DEPENDENCYQUEUE[tasklist[idx]]))}
    /\ UNCHANGED <<graphVars, pc, tasklist, extras, pending, donequeue, wpc, wtask,
                   skipped, invoked, finished, raised, justbuilt, saved, failseen,
                   aborted, exitcode>>

\* Mutant: the outputs of a skipped task stay in the pending table.
ScanSkip_KeepPending ==
    /\ pc = "scan"
    /\ idx <= Len(tasklist)
    /\ tasksqueued < THREADCOUNT
    /\ AllSourcesReady(DEPENDENCYQUEUE[tasklist[idx]], pending)
    /\ needs' = [needs EXCEPT ![tasklist[idx]] = "no"]
    /\ skipped' = skipped \cup {tasklist[idx]}
    /\ finished' = finished \cup {tasklist[idx]}
    /\ idx' = idx + 1
    /\ cachecalls' =
          cachecalls
              \cup {CacheCall("NeedsBuild", NeedsBuildArgs(DEPENDENCYQUEUE[tasklist[idx]]))}
    /\ UNCHANGED <<graphVars, pc, tasklist, extras, pending, tasksqueued, taskqueue,
                   donequeue, wpc, wtask, dispatched, invoked, raised, justbuilt, saved,
                   failseen, aborted, exitcode>>

\* One iteration of the for loop: the task is ready and NeedsBuild answers
\* false.
ScanSkip ==
    /\ pc = "scan"
    /\ idx <= Len(tasklist)
    /\ tasksqueued < THREADCOUNT
    /\ AllSourcesReady(DEPENDENCYQUEUE[tasklist[idx]], pending)
    /\ needs' = [needs EXCEPT ![tasklist[idx]] = "no"]
    /\ IF Outputs(tasklist[idx]) \subseteq pending
       THEN /\ pending' = pending \ Outputs(tasklist[idx])
            /\ skipped' = skipped \cup {tasklist[idx]}
            /\ finished' = finished \cup {tasklist[idx]}
            /\ idx' = idx + 1
            /\ UNCHANGED <<pc, aborted>>
       ELSE /\ DelRaises
            /\ UNCHANGED <<pending, skipped, finished, idx>>
    /\ cachecalls' =
          cachecalls
              \cup {CacheCall("NeedsBuild", NeedsBuildArgs(DEPENDENCYQUEUE[tasklist[idx]]))}
    /\ UNCHANGED <<graphVars, tasklist, extras, tasksqueued, taskqueue, donequeue,
                   wpc, wtask, dispatched, invoked, raised, justbuilt, saved, failseen,
                   exitcode>>

\* Mutant: a deferred task goes to the front of extras.
ScanDefer_Prepends ==
    /\ pc = "scan"
    /\ idx <= Len(tasklist)
    /\ ~(tasksqueued < THREADCOUNT
         /\ AllSourcesReady(DEPENDENCYQUEUE[tasklist[idx]], pending))
    /\ extras' = <<tasklist[idx]>> \o extras
    /\ idx' = idx + 1
    /\ UNCHANGED <<graphVars, pc, tasklist, pending, tasksqueued, taskqueue, donequeue,
                   wpc, wtask, histVars>>

\* One iteration of the for loop: no slot is free or the task is not ready.
ScanDefer ==
    /\ pc = "scan"
    /\ idx <= Len(tasklist)
    /\ ~(tasksqueued < THREADCOUNT
         /\ AllSourcesReady(DEPENDENCYQUEUE[tasklist[idx]], pending))
    /\ extras' = Append(extras, tasklist[idx])
    /\ idx' = idx + 1
    /\ UNCHANGED <<graphVars, pc, tasklist, pending, tasksqueued, taskqueue, donequeue,
                   wpc, wtask, histVars>>

\* The for loop is over: tasklist = extras, then the test of tasksqueued.
EndScan ==
    /\ pc = "scan"
    /\ idx > Len(tasklist)
    /\ tasklist' = extras
    /\ pc' = AfterScan(tasksqueued, extras)
    /\ UNCHANGED <<graphVars, extras, idx, pending, tasksqueued, taskqueue, donequeue,
                   wpc, wtask, histVars>>

\* Mutant: the failure sentinel is taken and the loop goes on.
GetFailure_GoesOn ==
    /\ pc = "get"
    /\ donequeue # <<>>
    /\ Head(donequeue) = FailureSentinel
    /\ donequeue' = Tail(donequeue)
    /\ failseen' = TRUE
    /\ tasksqueued' = tasksqueued - 1
    /\ pc' = "loop"
    /\ UNCHANGED <<needs, graphVars, tasklist, extras, idx, pending, taskqueue, wpc,
                   wtask, dispatched, skipped, invoked, finished, raised, justbuilt,
                   saved, aborted, exitcode, cachecalls>>

\* donetask = donequeue.get(); donetask == 0: exit("Build process aborting.")
GetFailure ==
    /\ pc = "get"
    /\ donequeue # <<>>
    /\ Head(donequeue) = FailureSentinel
    /\ donequeue' = Tail(donequeue)
    /\ failseen' = TRUE
    /\ Exit("Build process aborting.")
    /\ UNCHANGED <<needs, graphVars, schedVars, taskqueue, wpc, wtask, dispatched, skipped,
                   invoked, finished, raised, justbuilt, saved, exitcode, cachecalls>>

\* Mutant: the outputs of the finished task stay in pending.
GetSuccess_KeepPending ==
    /\ pc = "get"
    /\ donequeue # <<>>
    /\ Head(donequeue) # FailureSentinel
    /\ donequeue' = Tail(donequeue)
    /\ tasksqueued' = tasksqueued - 1
    /\ justbuilt' = [justbuilt EXCEPT ![Head(donequeue)] = @ + 1]
    /\ pc' = "loop"
    /\ cachecalls' =
          cachecalls
              \cup {CacheCall("JustBuilt", JustBuiltArgs(DEPENDENCYQUEUE[Head(donequeue)]))}
    /\ UNCHANGED <<needs, graphVars, tasklist, extras, idx, pending, taskqueue, wpc, wtask,
                   dispatched, skipped, invoked, finished, raised, saved, failseen,
                   aborted, exitcode>>

\* Mutant: the pending table is emptied when a result is taken.
GetSuccess_ClearsPending ==
    /\ pc = "get"
    /\ donequeue # <<>>
    /\ Head(donequeue) # FailureSentinel
    /\ donequeue' = Tail(donequeue)
    /\ tasksqueued' = tasksqueued - 1
    /\ justbuilt' = [justbuilt EXCEPT ![Head(donequeue)] = @ + 1]
    /\ pending' = {}
    /\ pc' = "loop"
    /\ cachecalls' =
          cachecalls
              \cup {CacheCall("JustBuilt", JustBuiltArgs(DEPENDENCYQUEUE[Head(donequeue)]))}
    /\ UNCHANGED <<needs, graphVars, tasklist, extras, idx, taskqueue, wpc, wtask, dispatched,
                   skipped, invoked, finished, raised, saved, failseen, aborted, exitcode>>

\* Mutant: tasksqueued is not lowered when a result is taken.
GetSuccess_NoDecrement ==
    /\ pc = "get"
    /\ donequeue # <<>>
    /\ Head(donequeue) # FailureSentinel
    /\ donequeue' = Tail(donequeue)
    /\ justbuilt' = [justbuilt EXCEPT ![Head(donequeue)] = @ + 1]
    /\ pending' = pending \ Outputs(Head(donequeue))
    /\ pc' = "loop"
    /\ cachecalls' =
          cachecalls
              \cup {CacheCall("JustBuilt", JustBuiltArgs(DEPENDENCYQUEUE[Head(donequeue)]))}
    /\ UNCHANGED <<needs, graphVars, tasklist, extras, idx, tasksqueued, taskqueue, wpc,
                   wtask, dispatched, skipped, invoked, finished, raised, saved, failseen,
                   aborted, exitcode>>

\* donetask = donequeue.get(); tasksqueued -= 1; JustBuilt(...); del pending[...]
GetSuccess ==
    /\ pc = "get"
    /\ donequeue # <<>>
    /\ Head(donequeue) # FailureSentinel
    /\ donequeue' = Tail(donequeue)
    /\ tasksqueued' = tasksqueued - 1
    /\ justbuilt' = [justbuilt EXCEPT ![Head(donequeue)] = @ + 1]
    /\ IF Outputs(Head(donequeue)) \subseteq pending
       THEN /\ pending' = pending \ Outputs(Head(donequeue))
            /\ pc' = "loop"
            /\ UNCHANGED aborted
       ELSE /\ DelRaises
            /\ UNCHANGED pending
    /\ cachecalls' =
          cachecalls
              \cup {CacheCall("JustBuilt", JustBuiltArgs(DEPENDENCYQUEUE[Head(donequeue)]))}
    /\ UNCHANGED <<needs, graphVars, tasklist, extras, idx, taskqueue, wpc, wtask, dispatched,
                   skipped, invoked, finished, raised, saved, failseen, exitcode>>

\* Mutant: one stop signal is put, whatever the number of workers.
KillWorkers_OneSignal ==
    /\ pc = "kill"
    /\ taskqueue' = Append(taskqueue, StopSignal)
    /\ IF Len(tasklist) > 0
       THEN Exit("Dependency problems")
       ELSE pc' = "finally" /\ UNCHANGED aborted
    /\ UNCHANGED <<needs, graphVars, schedVars, donequeue, wpc, wtask, dispatched, skipped,
                   invoked, finished, raised, justbuilt, saved, failseen, exitcode,
                   cachecalls>>

\* After the loop: one stop signal per worker, then the test for unsatisfied
\* tasks.
KillWorkers ==
    /\ pc = "kill"
    /\ taskqueue' = taskqueue \o [i \in 1..THREADCOUNT |-> StopSignal]
    /\ IF Len(tasklist) > 0
       THEN Exit("Dependency problems")
       ELSE pc' = "finally" /\ UNCHANGED aborted
    /\ UNCHANGED <<needs, graphVars, schedVars, donequeue, wpc, wtask, dispatched, skipped,
                   invoked, finished, raised, justbuilt, saved, failseen, exitcode, cachecalls>>

ParallelMake ==
    \/ BeginScan
    \/ ScanDispatch
    \/ ScanSkip
    \/ ScanDefer
    \/ EndScan
    \/ GetFailure
    \/ GetSuccess
    \/ KillWorkers

(* ---------------------------- SequentialMake -------------------------- *)

\* for task in tasklist: NeedsBuild is false.
SeqSkip ==
    /\ pc = "seq"
    /\ idx <= Len(tasklist)
    /\ needs' = [needs EXCEPT ![tasklist[idx]] = "no"]
    /\ skipped' = skipped \cup {tasklist[idx]}
    /\ finished' = finished \cup {tasklist[idx]}
    /\ idx' = idx + 1
    /\ cachecalls' =
          cachecalls
              \cup {CacheCall("NeedsBuild", NeedsBuildArgs(DEPENDENCYQUEUE[tasklist[idx]]))}
    /\ UNCHANGED <<graphVars, pc, tasklist, extras, pending, tasksqueued, taskqueue,
                   donequeue, wpc, wtask, dispatched, invoked, raised, justbuilt,
                   saved, failseen, aborted, exitcode>>

\* Mutant: the sequential loop records nothing after the action.
SeqBuild_NoJustBuilt ==
    /\ pc = "seq"
    /\ idx <= Len(tasklist)
    /\ needs' = [needs EXCEPT ![tasklist[idx]] = "yes"]
    /\ invoked' = [invoked EXCEPT ![tasklist[idx]] = @ + 1]
    /\ finished' = finished \cup {tasklist[idx]}
    /\ idx' = idx + 1
    /\ cachecalls' =
          cachecalls
              \cup {CacheCall("NeedsBuild", NeedsBuildArgs(DEPENDENCYQUEUE[tasklist[idx]]))}
    /\ UNCHANGED <<graphVars, pc, tasklist, extras, pending, tasksqueued, taskqueue,
                   donequeue, wpc, wtask, dispatched, skipped, raised, justbuilt, saved,
                   failseen, aborted, exitcode>>

\* for task in tasklist: the action is called and returns; JustBuilt(...).
SeqBuild ==
    /\ pc = "seq"
    /\ idx <= Len(tasklist)
    /\ DEPENDENCYQUEUE' = AfterAction(tasklist[idx])
    /\ needs' = [needs EXCEPT ![tasklist[idx]] = "yes"]
    /\ invoked' = [invoked EXCEPT ![tasklist[idx]] = @ + 1]
    /\ finished' = finished \cup {tasklist[idx]}
    /\ justbuilt' = [justbuilt EXCEPT ![tasklist[idx]] = @ + 1]
    /\ idx' = idx + 1
    /\ cachecalls' =
          cachecalls
              \cup {CacheCall("NeedsBuild", NeedsBuildArgs(DEPENDENCYQUEUE[tasklist[idx]]))}
              \cup {CacheCall("JustBuilt", JustBuiltArgs(DEPENDENCYQUEUE[tasklist[idx]]))}
    /\ UNCHANGED <<THREADCOUNT, TARGET_LIST, calls, stale, pc, tasklist, extras, pending,
                   tasksqueued, taskqueue, donequeue, wpc, wtask, dispatched, skipped,
                   raised, saved, failseen, aborted, exitcode>>

\* for task in tasklist: the action is called and raises; the exception leaves
\* SequentialMake and RunDependencyQueue.
SeqRaise ==
    /\ pc = "seq"
    /\ idx <= Len(tasklist)
    /\ DEPENDENCYQUEUE' \in {DEPENDENCYQUEUE, AfterAction(tasklist[idx])}
    /\ needs' = [needs EXCEPT ![tasklist[idx]] = "yes"]
    /\ invoked' = [invoked EXCEPT ![tasklist[idx]] = @ + 1]
    /\ raised' = raised \cup {tasklist[idx]}
    /\ aborted' = "exception"
    /\ pc' = "finally"
    /\ cachecalls' =
          cachecalls
              \cup {CacheCall("NeedsBuild", NeedsBuildArgs(DEPENDENCYQUEUE[tasklist[idx]]))}
    /\ UNCHANGED <<THREADCOUNT, TARGET_LIST, calls, stale, schedVars, taskqueue, donequeue,
                   wpc, wtask, dispatched, skipped, finished, justbuilt, saved, failseen,
                   exitcode>>

\* The for loop is over: SequentialMake returns.
SeqReturn ==
    /\ pc = "seq"
    /\ idx > Len(tasklist)
    /\ pc' = "finally"
    /\ UNCHANGED <<graphVars, schedVars, taskqueue, donequeue, wpc, wtask, histVars>>

SequentialMake ==
    \/ SeqSkip
    \/ SeqBuild
    \/ SeqRaise
    \/ SeqReturn

(* ------------------------------ call site ----------------------------- *)

\* Mutant: the save follows the call without a finally clause.
SaveDependencyCache_NoFinally ==
    /\ pc = "finally"
    /\ saved' = IF aborted = "no" THEN saved + 1 ELSE saved
    /\ exitcode' = IF aborted = "no" THEN 0 ELSE 1
    /\ pc' = "done"
    /\ UNCHANGED <<needs, graphVars, schedVars, taskqueue, donequeue, wpc, wtask,
                   dispatched, skipped, invoked, finished, raised, justbuilt, failseen,
                   aborted, cachecalls>>

\* Mutant: the cache is saved in an except handler and again in finally.
SaveDependencyCache_Twice ==
    /\ pc = "finally"
    /\ saved' = saved + (IF aborted = "no" THEN 1 ELSE 2)
    /\ exitcode' = IF aborted = "no" THEN 0 ELSE 1
    /\ pc' = "done"
    /\ UNCHANGED <<needs, graphVars, schedVars, taskqueue, donequeue, wpc, wtask, dispatched,
                   skipped, invoked, finished, raised, justbuilt, failseen, aborted,
                   cachecalls>>

\* try: RunDependencyQueue(DEPENDENCYQUEUE) finally: SaveDependencyCache()
SaveDependencyCache ==
    /\ pc = "finally"
    /\ saved' = saved + 1
    /\ exitcode' = IF aborted = "no" THEN 0 ELSE 1
    /\ pc' = "done"
    /\ UNCHANGED <<needs, graphVars, schedVars, taskqueue, donequeue, wpc, wtask, dispatched,
                   skipped, invoked, finished, raised, justbuilt, failseen, aborted,
                   cachecalls>>

RunDependencyQueue ==
    \/ StartParallel
    \/ StartSequential

Next ==
    \/ RunDependencyQueue
    \/ ParallelMake
    \/ SequentialMake
    \/ SaveDependencyCache
    \/ \E w \in Workers : BuildWorker(w)

Spec == Init /\ [][Next]_vars

\* The main thread and every started worker thread keep being scheduled.
MainThread ==
    \/ RunDependencyQueue
    \/ ParallelMake
    \/ SequentialMake
    \/ SaveDependencyCache

Fairness ==
    /\ WF_vars(MainThread)
    /\ \A w \in 1..MaxThreads : WF_vars(w \in Workers /\ BuildWorker(w))

\* The runs over the task lists of fewer than NT tasks, fairly scheduled.
ShortInit == Init /\ Len(DEPENDENCYQUEUE) < NT

FairSpec == ShortInit /\ [][Next]_vars /\ Fairness

(* --------------------------- target registry -------------------------- *)

\* The runs of the scheduler above start from task lists drawn directly; the
\* registry that yields DEPENDENCYQUEUE in the program is run apart, from an
\* empty TARGET_LIST, in RegSpec.

\* The output names and the input lists of the TargetAdd calls.
TargetNames == 1..MaxTargets

InputLists == {<<>>} \cup {<<x>> : x \in TargetNames \cup LeafNames}

DepSets == {{}} \cup {{x} : x \in LeafNames}

\* The position of a name in TARGET_LIST (0: not registered).
TargetIndex(name) ==
    IF \E i \in 1..Len(TARGET_LIST) : TARGET_LIST[i].name = name
    THEN CHOOSE i \in 1..Len(TARGET_LIST) : TARGET_LIST[i].name = name
    ELSE 0

\* Mutant: every call makes a new target.
TargetAdd_NewTarget(target, input, dep) ==
    /\ pc = "register"
    /\ Len(calls) < MaxCalls
    /\ calls' = Append(calls, [target |-> target, input |-> input, dep |-> dep])
    /\ TARGET_LIST' = Append(TARGET_LIST, [name |-> target, inputs |-> input, deps |-> dep])
    /\ UNCHANGED <<DEPENDENCYQUEUE, THREADCOUNT, stale, pc, schedVars, taskqueue, donequeue,
                   wpc, wtask, histVars>>

\* TargetAdd(target, input=..., dep=...): a new output name makes a target at
\* the end of TARGET_LIST; a name already registered gets the inputs appended
\* to its input list.
TargetAdd(target, input, dep) ==
    /\ pc = "register"
    /\ Len(calls) < MaxCalls
    /\ calls' = Append(calls, [target |-> target, input |-> input, dep |-> dep])
    /\ TARGET_LIST' =
          IF TargetIndex(target) = 0
          THEN Append(TARGET_LIST, [name |-> target, inputs |-> input, deps |-> dep])
          ELSE [TARGET_LIST EXCEPT ![TargetIndex(target)] =
                    [@ EXCEPT !.inputs = @ \o input, !.deps = @ \cup dep]]
    /\ UNCHANGED <<DEPENDENCYQUEUE, THREADCOUNT, stale, pc, schedVars, taskqueue, donequeue,
                   wpc, wtask, histVars>>

\* for target in TARGET_LIST: DEPENDENCYQUEUE.append([CompileAnything,
\* [name, inputs, opts], [name], deps, []])
BuildQueue ==
    /\ pc = "register"
    /\ DEPENDENCYQUEUE' =
          [i \in 1..Len(TARGET_LIST) |->
              MakeTask(TARGET_LIST[i].name, Range(TARGET_LIST[i].inputs),
                       TARGET_LIST[i].deps, {})]
    /\ pc' = "start"
    /\ UNCHANGED <<THREADCOUNT, TARGET_LIST, calls, stale, schedVars, taskqueue, donequeue,
                   wpc, wtask, histVars>>

RegInit ==
    /\ DEPENDENCYQUEUE = <<>>
    /\ THREADCOUNT = 0
    /\ pc = "register"
    /\ tasklist = <<>>
    /\ extras = <<>>
    /\ idx = 1
    /\ pending = {}
    /\ tasksqueued = 0
    /\ taskqueue = <<>>
    /\ donequeue = <<>>
    /\ wpc = <<>>
    /\ wtask = <<>>
    /\ needs = <<>>
    /\ dispatched = {}
    /\ skipped = {}
    /\ invoked = <<>>
    /\ finished = {}
    /\ raised = {}
    /\ justbuilt = <<>>
    /\ saved = 0
    /\ failseen = FALSE
    /\ aborted = "no"
    /\ exitcode = -1
    /\ TARGET_LIST = <<>>
    /\ calls = <<>>
    /\ cachecalls = {}
    /\ stale = <<>>

RegNext ==
    \/ \E target \in TargetNames, input \in InputLists, dep \in DepSets :
          TargetAdd(target, input, dep)
    \/ BuildQueue

RegSpec == RegInit /\ [][RegNext]_vars

(* ------------------ runs from a given file and cache state ------------ *)

\* In the runs above every NeedsBuild call may answer either way.  Here the
\* files and the cache before the run are given by stale, and NeedsBuild is a
\* function of them and of what the run has rebuilt: it is true for a task
\* that was stale before the run, and for a task one of whose deps (the names
\* passed to NeedsBuild) was rewritten by an action of this run.

\* The tasks whose action has returned: their outputs are rewritten.
Rebuilt == finished \ skipped

NeedsBuildAnswer(t) ==
    \/ stale[t]
    \/ \E d \in NeedsBuildArgs(DEPENDENCYQUEUE[t]).deps : Producers(d) \cap Rebuilt # {}

DetScanDispatch ==
    /\ pc = "scan"
    /\ idx <= Len(tasklist)
    /\ NeedsBuildAnswer(tasklist[idx])
    /\ ScanDispatch

DetScanSkip ==
    /\ pc = "scan"
    /\ idx <= Len(tasklist)
    /\ ~NeedsBuildAnswer(tasklist[idx])
    /\ ScanSkip

DetSeqSkip ==
    /\ pc = "seq"
    /\ idx <= Len(tasklist)
    /\ ~NeedsBuildAnswer(tasklist[idx])
    /\ SeqSkip

DetSeqBuild ==
    /\ pc = "seq"
    /\ idx <= Len(tasklist)
    /\ NeedsBuildAnswer(tasklist[idx])
    /\ SeqBuild

DetSeqRaise ==
    /\ pc = "seq"
    /\ idx <= Len(tasklist)
    /\ NeedsBuildAnswer(tasklist[idx])
    /\ SeqRaise

DetInit ==
    /\ DEPENDENCYQUEUE \in TaskLists \cup {Diamond, LeafMix}
    /\ THREADCOUNT \in 0..MaxThreads
    /\ stale \in [Tasks -> BOOLEAN]
    /\ pc = "start"
    /\ tasklist = [i \in Tasks |-> i]
    /\ extras = <<>>
    /\ idx = 1
    /\ pending = {}
    /\ tasksqueued = 0
    /\ taskqueue = <<>>
    /\ donequeue = <<>>
    /\ wpc = <<>>
    /\ wtask = <<>>
    /\ needs = [t \in Tasks |-> "unknown"]
    /\ dispatched = {}
    /\ skipped = {}
    /\ invoked = [t \in Tasks |-> 0]
    /\ finished = {}
    /\ raised = {}
    /\ justbuilt = [t \in Tasks |-> 0]
    /\ saved = 0
    /\ failseen = FALSE
    /\ aborted = "no"
    /\ exitcode = -1
    /\ TARGET_LIST = <<>>
    /\ calls = <<>>
    /\ cachecalls = {}

DetNext ==
    \/ RunDependencyQueue
    \/ BeginScan
    \/ DetScanDispatch
    \/ DetScanSkip
    \/ ScanDefer
    \/ EndScan
    \/ GetFailure
    \/ GetSuccess
    \/ KillWorkers
    \/ DetSeqSkip
    \/ DetSeqBuild
    \/ DetSeqRaise
    \/ SeqReturn
    \/ SaveDependencyCache
    \/ \E w \in Workers : BuildWorker(w)

DetSpec == DetInit /\ [][DetNext]_vars

(* ------------------------------- claims ------------------------------- *)

Executing == {w \in Workers : wpc[w] = "exec"}

\* C1: with N > 0, a task that has been put on the task queue has none of its
\* inputs, explicit deps or alternate deps in the pending table, and every
\* producer of such a name has completed (its action returned or it was
\* skipped).  pending is unchanged by the dispatch itself, so this holds at
\* the moment of the dispatch.
C1_DispatchedOnlyWhenReady ==
    THREADCOUNT > 0 =>
        \A t \in dispatched :
            /\ Sources(t) \cap pending = {}
            /\ \A n \in Sources(t) : Producers(n) \subseteq finished

\* A task was dispatched whose alternate dep is the output of another task.
C1_Witness ==
    /\ THREADCOUNT > 0
    /\ \E t \in dispatched :
          \E n \in DEPENDENCYQUEUE[t].altsources :
              Producers(n) # {} /\ n \notin Outputs(t)

\* C2: in the diamond with all four tasks needing a build and N > 0, the
\* action of B or C is not started before the scheduler has consumed A's
\* completion, and the action of D is not started before B and C have both
\* completed and been consumed.
C2_DiamondOrder ==
    (DEPENDENCYQUEUE = Diamond /\ THREADCOUNT > 0 /\ \A t \in Tasks : needs[t] # "no") =>
        /\ (invoked[2] > 0 \/ invoked[3] > 0) =>
              (1 \in finished /\ 1 \notin pending /\ justbuilt[1] = 1)
        /\ invoked[4] > 0 =>
              ({2, 3} \subseteq finished /\ pending \cap {2, 3} = {})

\* B and C are being executed at the same time by two workers.
C2_Witness ==
    /\ DEPENDENCYQUEUE = Diamond
    /\ \A t \in Tasks : needs[t] # "no"
    /\ \E v, w \in Executing : wtask[v] = 2 /\ wtask[w] = 3

\* C3: with N > 0, at most N actions are being executed and at most N tasks
\* are dispatched with their result not yet consumed.
C3_AtMostNInFlight ==
    THREADCOUNT > 0 =>
        /\ Cardinality(Executing) <= THREADCOUNT
        /\ tasksqueued <= THREADCOUNT

\* Every slot is taken, every worker is executing, and a task that is ready
\* waits in the remaining list.
C3_Witness ==
    /\ THREADCOUNT = MaxThreads
    /\ tasksqueued = THREADCOUNT
    /\ Cardinality(Executing) = THREADCOUNT
    /\ pc = "get"
    /\ \E i \in 1..Len(tasklist) :
          AllSourcesReady(DEPENDENCYQUEUE[tasklist[i]], pending)

\* C4: with N = 0, no task's action is invoked while another task that
\* produces one of its inputs or explicit deps has not completed.
C4_SequentialRespectsDeps ==
    THREADCOUNT = 0 =>
        \A t \in Tasks :
            invoked[t] > 0 =>
                \A n \in DEPENDENCYQUEUE[t].inputs \cup DEPENDENCYQUEUE[t].deps :
                    (Producers(n) \ {t}) \subseteq finished

\* The scheduler is at the top of its loop, tasks remain, none of them is
\* ready and none is in flight.
Starved ==
    /\ THREADCOUNT > 0
    /\ pc = "loop"
    /\ Len(tasklist) > 0
    /\ tasksqueued = 0
    /\ \A i \in 1..Len(tasklist) :
          ~AllSourcesReady(DEPENDENCYQUEUE[tasklist[i]], pending)

\* C5: with N > 0, a starved scheduler eventually aborts with the
\* unsatisfiable-dependency error.
C5_StarvationAborts == Starved ~> (aborted = "Dependency problems")

\* Only stop signals are left on the task queue, or nothing.
NoTaskQueued == \A i \in 1..Len(taskqueue) : taskqueue[i] = StopSignal

\* C6: with N > 0, once the scheduling thread has taken a failure sentinel no
\* task is put on the task queue any more, and the run is aborted: it ends
\* with a non-zero exit status.
C6_NoDispatchAfterFailure ==
    [][/\ failseen' =>
            /\ aborted' = "Build process aborting."
            /\ pc' \in {"finally", "done"}
            /\ pc' = "done" => exitcode' = 1
       /\ failseen =>
            /\ dispatched' = dispatched
            /\ Len(taskqueue') <= Len(taskqueue)]_vars

\* The run was aborted on a failure sentinel while a remaining task was
\* ready.
C6_Witness ==
    /\ failseen
    /\ pc = "done"
    /\ \E i \in 1..Len(tasklist) :
          AllSourcesReady(DEPENDENCYQUEUE[tasklist[i]], pending)

\* C7: the process does not leave RunDependencyQueue's call site, with or
\* without a raised action, before SaveDependencyCache has run.
C7_CacheSavedBeforeExit ==
    /\ exitcode # -1 => saved >= 1
    /\ pc = "done" => exitcode # -1

\* An action raised with N > 0, the run was aborted and the cache was saved.
C7_Witness ==
    /\ THREADCOUNT > 0
    /\ raised # {}
    /\ exitcode = 1
    /\ saved >= 1

TaskOutputs == UNION {Outputs(t) : t \in Tasks}

\* u depends on t: a source of u is an output of t.
DependsOn(u, t) == Sources(u) \cap Outputs(t) # {}

\* u has a source that a task produces, and every such source is produced
\* by t.
DependsOnlyOn(u, t) ==
    /\ u # t
    /\ DependsOn(u, t)
    /\ Sources(u) \cap TaskOutputs \subseteq Outputs(t)

\* C8: with N > 0, a task for which NeedsBuild answered false is never put
\* on the task queue and its action is never invoked, its outputs are out of
\* the pending table, every task that depends only on it is ready, and such
\* a task has been dispatched or skipped when the loop is left.
C8_SkippedTaskCompletes ==
    THREADCOUNT > 0 =>
        \A t \in Tasks :
            needs[t] = "no" =>
                /\ invoked[t] = 0
                /\ t \notin dispatched
                /\ t \notin Range(taskqueue)
                /\ \A w \in Workers : wtask[w] # t
                /\ Outputs(t) \cap pending = {}
                /\ \A u \in Tasks :
                      DependsOnlyOn(u, t) =>
                          /\ AllSourcesReady(DEPENDENCYQUEUE[u], pending)
                          /\ pc \in {"kill", "finally", "done"} /\ aborted = "no" =>
                                u \in dispatched \cup skipped

\* A task was skipped and a task that depends only on it was dispatched.
C8_Witness ==
    /\ THREADCOUNT > 0
    /\ \E t, u \in Tasks :
          /\ needs[t] = "no"
          /\ DependsOnlyOn(u, t)
          /\ u \in dispatched

\* The tasks reachable from t along at most k dependency edges.
RECURSIVE Upstream(_, _)
Upstream(t, k) ==
    IF k = 0
    THEN {}
    ELSE LET direct == {p \in Tasks : DependsOn(t, p)}
         IN  direct \cup UNION {Upstream(p, k - 1) : p \in direct}

\* No task depends on itself, directly or through other tasks.
Acyclic == \A t \in Tasks : t \notin Upstream(t, Len(DEPENDENCYQUEUE))

NoneNeedsBuild == \A t \in Tasks : needs[t] # "yes"

\* While NeedsBuild has answered false every time: no action was invoked,
\* nothing was dispatched, nothing is queued or executing, and a finished
\* run is a successful one that skipped every task and left the pending table
\* and (with N > 0) the remaining list empty.
NoChangeNoAction ==
    NoneNeedsBuild =>
        /\ \A t \in Tasks : invoked[t] = 0
        /\ dispatched = {}
        /\ NoTaskQueued
        /\ Executing = {}
        /\ tasksqueued = 0
        /\ aborted = "no"
        /\ pc = "done" =>
              /\ exitcode = 0
              /\ skipped = Tasks
              /\ pending = {}
              /\ THREADCOUNT > 0 => tasklist = <<>>
              /\ THREADCOUNT = 0 => idx > Len(tasklist)

\* C9: a run in which NeedsBuild is false for every task invokes no action and
\* dispatches nothing, for N = 0 and for N > 0, and (the task list being
\* acyclic, as after a complete build) it ends successfully with every output
\* out of the pending table and no task remaining.
C9_RebuildDoesNothing ==
    /\ []NoChangeNoAction
    /\ Acyclic => <>(pc = "done" \/ ~NoneNeedsBuild)

\* A run with N > 0 over two tasks, the first depending on the second, ended
\* with both skipped.
C9_Witness ==
    /\ THREADCOUNT > 0
    /\ pc = "done"
    /\ NoneNeedsBuild
    /\ Len(DEPENDENCYQUEUE) = 2
    /\ DependsOn(1, 2)
    /\ skipped = {1, 2}

\* C10: a task whose inputs, deps and alternate deps are all empty is ready
\* by AllSourcesReady whatever the pending table holds.
C10_EmptySourcesReady ==
    \A t \in Tasks :
        Sources(t) = {} =>
            \A pend \in SUBSET (TaskOutputs \cup LeafNames) :
                AllSourcesReady(DEPENDENCYQUEUE[t], pend)

\* In the first scan a task without sources was dispatched while the outputs
\* of all tasks, its own too, were in the pending table.
C10_Witness ==
    /\ pc = "scan"
    /\ Len(tasklist) = Len(DEPENDENCYQUEUE)
    /\ pending = TaskOutputs
    /\ \E t \in dispatched : Sources(t) = {} /\ Len(DEPENDENCYQUEUE) > 1

\* The failure sentinels on donequeue.
Sentinels == {i \in 1..Len(donequeue) : donequeue[i] = FailureSentinel}

\* The stop signals on taskqueue.
StopSignals == {i \in 1..Len(taskqueue) : taskqueue[i] = StopSignal}

\* The stop signals put so far: THREADCOUNT of them once the loop was left.
StopSignalsPut ==
    IF pc \in {"finally", "done"} /\ aborted \in {"no", "Dependency problems"}
    THEN THREADCOUNT ELSE 0

\* C11: every action that raised in a worker has given exactly one failure
\* sentinel (on donequeue, or taken from it by the main thread), no success
\* result for that task was put or recorded, and no worker thread has ended
\* because of it: a thread has returned only by taking a stop signal.
C11_ExceptionBecomesOneSentinel ==
    THREADCOUNT > 0 =>
        /\ Cardinality(Sentinels) + (IF failseen THEN 1 ELSE 0) = Cardinality(raised)
        /\ \A t \in raised :
              /\ t \notin Range(donequeue)
              /\ t \notin finished
              /\ justbuilt[t] = 0
              /\ invoked[t] = 1
        /\ Cardinality({w \in Workers : wpc[w] = "returned"}) + Cardinality(StopSignals)
              = StopSignalsPut

\* Two actions raised, in the same thread or in two: the sentinel of the first
\* is consumed or still queued, and a thread is back in taskqueue.get() after
\* its timeout.
C11_Witness ==
    /\ THREADCOUNT = 2
    /\ Cardinality(raised) = 2
    /\ \E w \in Workers : wpc[w] = "get2"
    /\ \A w \in Workers : wpc[w] # "returned"

\* C12: with N > 0, an acyclic dependency relation and no action that raises,
\* a fairly scheduled run leaves the loop of ParallelMake and ends with
\* success, every task having been executed or skipped.
C12_AcyclicRunTerminates ==
    (THREADCOUNT > 0 /\ Acyclic) =>
        <>(\/ raised # {}
           \/ /\ pc = "done"
              /\ exitcode = 0
              /\ tasklist = <<>>
              /\ pending = {}
              /\ \A t \in Tasks : t \in skipped \/ (invoked[t] = 1 /\ t \in finished))

\* A run of two tasks, the first listed one depending on the second, both
\* executed, that returned from ParallelMake with success.
C12_Witness ==
    /\ THREADCOUNT > 0
    /\ Acyclic
    /\ Len(DEPENDENCYQUEUE) = 2
    /\ DependsOn(1, 2)
    /\ invoked = <<1, 1>>
    /\ pc = "done"
    /\ exitcode = 0

\* Tasks put on taskqueue whose result the main thread has not taken: still
\* on taskqueue, in a worker, or as a success result on donequeue.
TasksOnTaskQueue == {taskqueue[i] : i \in 1..Len(taskqueue)} \ {StopSignal}

TasksInWorkers == {wtask[w] : w \in Executing}

ResultsOnDoneQueue == Range(donequeue) \ {FailureSentinel}

\* C13: with N > 0, when the build has aborted on a failure sentinel, every
\* task dispatched before has finished and its result has been taken from
\* donequeue: no task is left on taskqueue, in a worker or on donequeue.
C13_DrainedBeforeAbort ==
    (THREADCOUNT > 0 /\ aborted = "Build process aborting.") =>
        /\ TasksOnTaskQueue = {}
        /\ TasksInWorkers = {}
        /\ donequeue = <<>>

\* Scheduling is over: an abort, or the loop of ParallelMake left with nothing
\* in flight, or the for loop of SequentialMake run to its end.
SchedulingFinished ==
    \/ aborted # "no"
    \/ THREADCOUNT > 0 /\ tasksqueued = 0 /\ donequeue = <<>> /\ Executing = {}
    \/ THREADCOUNT = 0 /\ idx > Len(tasklist)

\* C14: in every run, successful or aborted, SaveDependencyCache is called
\* exactly once, as the last step of the main thread: never twice, never
\* before scheduling is over, always when the run has ended, and no JustBuilt
\* call follows it.
C14_SavedOnceAtEnd ==
    /\ [](/\ saved <= 1
          /\ pc = "done" <=> saved = 1
          /\ saved = 1 => SchedulingFinished)
    /\ [][saved >= 1 => justbuilt' = justbuilt /\ saved' = saved]_vars

\* An aborted run that had recorded a task before the failure was seen, with
\* the cache saved.
C14_Witness ==
    /\ saved = 1
    /\ aborted = "Build process aborting."
    /\ \E t \in Tasks : justbuilt[t] = 1

RECURSIVE SumTo(_, _)
SumTo(f, n) == IF n = 0 THEN 0 ELSE f[n] + SumTo(f, n - 1)

\* The number of JustBuilt calls made so far.
JustBuiltCalls == SumTo(justbuilt, Len(justbuilt))

\* C15: at the successful end of ParallelMake or SequentialMake JustBuilt has
\* been called once for every task, the skipped tasks included.
C15_JustBuiltForEveryTask ==
    (pc = "done" /\ exitcode = 0) =>
        /\ JustBuiltCalls = Len(DEPENDENCYQUEUE)
        /\ \A t \in Tasks : justbuilt[t] = 1

\* The tasks whose action returned.
ActionSucceeded == finished \ skipped

\* C16: with N > 0, when the build has aborted on a failure and the cache is
\* saved, JustBuilt has been called for every task whose action had returned,
\* those whose result was still queued behind the sentinel included.
C16_SucceededRecordedOnAbort ==
    (THREADCOUNT > 0 /\ aborted = "Build process aborting." /\ saved >= 1) =>
        \A t \in ActionSucceeded : justbuilt[t] >= 1

\* donequeue' is donequeue with items put at its end.
DoneQueueGrows ==
    /\ Len(donequeue') >= Len(donequeue)
    /\ SubSeq(donequeue', 1, Len(donequeue)) = donequeue

\* C17: no step of a worker (taking a task or a stop signal, the timeout of
\* taskqueue.get, putting a result) changes the pending table, the remaining
\* task list, the count of tasks in flight or the cache, and a step that
\* takes an item from donequeue is a step of the main thread in
\* donequeue.get().
C17_OnlyMainThreadMutates ==
    [][/\ (\E w \in Workers : BuildWorker(w)) =>
              /\ UNCHANGED <<pending, tasklist, extras, tasksqueued, justbuilt, saved>>
              /\ DoneQueueGrows
       /\ ~DoneQueueGrows =>
              /\ pc = "get"
              /\ UNCHANGED <<wpc, wtask>>
              /\ donequeue' = Tail(donequeue)]_vars

\* A worker has taken a task, run its action and put the result: the result
\* waits on donequeue, its outputs are still pending and not yet recorded.
C17_Witness ==
    /\ donequeue # <<>>
    /\ Head(donequeue) # FailureSentinel
    /\ Outputs(Head(donequeue)) \subseteq pending
    /\ justbuilt[Head(donequeue)] = 0
    /\ tasksqueued > 0

\* The output names TargetAdd was called with.
CalledNames == {calls[k].target : k \in 1..Len(calls)}

\* The inputs of the first n calls for a name, in the order of the calls.
RECURSIVE CallInputs(_, _)
CallInputs(name, n) ==
    IF n = 0
    THEN <<>>
    ELSE CallInputs(name, n - 1)
            \o (IF calls[n].target = name THEN calls[n].input ELSE <<>>)

\* C18: a TargetAdd call for a name already registered appends its inputs to
\* that target's input list, in the order of the calls, and makes no second
\* target and no error; the task list built from TARGET_LIST has exactly one
\* task for each distinct output name.
C18_OneTargetPerOutput ==
    /\ aborted = "no"
    /\ {TARGET_LIST[i].name : i \in 1..Len(TARGET_LIST)} = CalledNames
    /\ Len(TARGET_LIST) = Cardinality(CalledNames)
    /\ \A i \in 1..Len(TARGET_LIST) :
          TARGET_LIST[i].inputs = CallInputs(TARGET_LIST[i].name, Len(calls))
    /\ pc = "start" =>
          /\ Len(DEPENDENCYQUEUE) = Cardinality(CalledNames)
          /\ \A name \in CalledNames :
                /\ Cardinality(Producers(name)) = 1
                /\ \A t \in Producers(name) :
                      /\ Outputs(t) = {name}
                      /\ DEPENDENCYQUEUE[t].inputs = Range(CallInputs(name, Len(calls)))

\* Three calls, the first and the third for the same output with different
\* inputs, a call for another output between them, and the task list built:
\* two tasks, the first with both inputs in the order of the calls.
C18_Witness ==
    /\ pc = "start"
    /\ Len(calls) = 3
    /\ calls[1].target = calls[3].target
    /\ calls[2].target # calls[1].target
    /\ Len(TARGET_LIST) = 2
    /\ Len(TARGET_LIST[1].inputs) = 2
    /\ TARGET_LIST[1].inputs[1] # TARGET_LIST[1].inputs[2]
    /\ TARGET_LIST[1].inputs = calls[1].input \o calls[3].input
    /\ Len(DEPENDENCYQUEUE) = 2

\* The number of del pending[...] made for the outputs of t: one when t was
\* skipped in the scan, one for each success result of t that was consumed.
Removals(t) == (IF t \in skipped THEN 1 ELSE 0) + justbuilt[t]

\* C19: with N > 0, nothing is dispatched or skipped before pending is
\* seeded; from then on pending holds the outputs of all tasks but those
\* skipped or whose success result was consumed; the outputs of a task are
\* removed at most once, and exactly once on a successful run; del
\* pending[...] never meets a key that is not there.
C19_PendingSeededRemovedOnce ==
    THREADCOUNT > 0 =>
        /\ pc = "start" => dispatched = {} /\ skipped = {} /\ finished = {}
        /\ pc # "start" =>
              pending = TaskOutputs \ UNION {Outputs(t) : t \in {u \in Tasks : Removals(u) > 0}}
        /\ \A t \in Tasks : Removals(t) <= 1
        /\ aborted # "KeyError"
        /\ (pc = "done" /\ exitcode = 0) =>
              pending = {} /\ \A t \in Tasks : Removals(t) = 1

\* A successful run with N > 0 in which one task was skipped and another was
\* executed and recorded.
C19_Witness ==
    /\ THREADCOUNT > 0
    /\ pc = "done"
    /\ exitcode = 0
    /\ skipped # {}
    /\ \E t \in Tasks : justbuilt[t] = 1

\* The remaining tasks that are ready.
ReadyRemaining ==
    {i \in 1..Len(tasklist) : AllSourcesReady(DEPENDENCYQUEUE[tasklist[i]], pending)}

\* C20: with N > 0, the main thread does not wait in donequeue.get() on an
\* empty donequeue while a dispatch slot is free and a remaining task is
\* ready.
C20_NoWaitWithReadyTask ==
    (THREADCOUNT > 0 /\ pc = "get" /\ donequeue = <<>>) =>
        ~(tasksqueued < THREADCOUNT /\ ReadyRemaining # {})

\* The scan has just put a task in extras: it is the last element of extras
\* and the task before the scan position.
JustDeferred ==
    /\ pc = "scan"
    /\ idx > 1
    /\ extras # <<>>
    /\ extras[Len(extras)] = tasklist[idx - 1]

\* C21: with N > 0, a task the scan finds ready is given to NeedsBuild in that
\* scan, whether or not a slot is free: a task the scan has just put in extras
\* (pending and tasksqueued are as they were when it was tested) is not
\* ready.  And a skip leaves the count of tasks in flight alone: the count is
\* the number of tasks dispatched whose result was not yet taken.
C21_ReadyTaskCheckedInScan ==
    THREADCOUNT > 0 =>
        /\ JustDeferred =>
              ~AllSourcesReady(DEPENDENCYQUEUE[tasklist[idx - 1]], pending)
        /\ aborted = "no" =>
              tasksqueued = Cardinality({t \in dispatched : justbuilt[t] = 0})

\* The main thread takes a success result from donequeue.
TakesSuccess ==
    /\ pc = "get"
    /\ donequeue # <<>>
    /\ Head(donequeue) # FailureSentinel
    /\ donequeue' = Tail(donequeue)

\* C22: with N > 0, the step that takes the success result of a task T
\* removes the outputs of T, all of them present, and nothing else from
\* pending, calls JustBuilt once, with the outputs and the deps of T, takes
\* one from tasksqueued and leaves the remaining task list as it is.
C22_SuccessStepFrame ==
    [][TakesSuccess =>
          LET T == Head(donequeue)
          IN  /\ THREADCOUNT > 0
              /\ Outputs(T) \subseteq pending
              /\ pending' = pending \ Outputs(T)
              /\ justbuilt' = [justbuilt EXCEPT ![T] = @ + 1]
              /\ cachecalls' = cachecalls \cup
                    {[fn |-> "JustBuilt", outputs |-> Outputs(T),
                      deps |-> DEPENDENCYQUEUE[T].deps]}
              /\ tasksqueued' = tasksqueued - 1
              /\ UNCHANGED <<tasklist, extras>>]_vars

\* A result was taken while the output of another task stayed in pending and
\* a task stayed in the remaining list.
C22_Witness ==
    /\ THREADCOUNT > 0
    /\ pc = "loop"
    /\ \E t \in Tasks : justbuilt[t] = 1 /\ Outputs(t) \cap pending = {}
    /\ pending # {}
    /\ tasklist # <<>>
    /\ \E c \in cachecalls : c.fn = "JustBuilt" /\ c.deps # {}

\* The worker threads that have returned.
Returned == {w \in Workers : wpc[w] = "returned"}

\* On a run that has not aborted: stop signals exist only once the remaining
\* list is empty and nothing is in flight, and those on taskqueue and those
\* taken make none or one per worker.
StopSignalsOnlyAtEnd ==
    (THREADCOUNT > 0 /\ aborted = "no") =>
        /\ (StopSignals # {} \/ Returned # {}) =>
              /\ tasklist = <<>>
              /\ tasksqueued = 0
              /\ TasksOnTaskQueue = {}
              /\ TasksInWorkers = {}
              /\ donequeue = <<>>
        /\ Cardinality(StopSignals) + Cardinality(Returned) = StopSignalsPut
        /\ pc \in {"finally", "done"} => StopSignalsPut = THREADCOUNT

\* C23: with N > 0 on a successful run, the stop signals are put only after
\* the task list is exhausted and no task is in flight, one for each worker;
\* no worker takes one while a task waits on taskqueue; and with fair
\* scheduling every worker takes one and returns, which leaves taskqueue
\* empty.
C23_StopSignalsAtShutdown ==
    /\ []StopSignalsOnlyAtEnd
    /\ (THREADCOUNT > 0 /\ pc = "done" /\ exitcode = 0)
          ~> (Returned = Workers /\ taskqueue = <<>>)

\* Two workers, a task was executed, both workers have returned and
\* taskqueue is empty.
C23_Witness ==
    /\ THREADCOUNT = 2
    /\ exitcode = 0
    /\ \E t \in Tasks : invoked[t] = 1
    /\ Returned = Workers
    /\ taskqueue = <<>>

\* C24: when ParallelMake has left its loop on a run that is not aborted, the
\* remaining task list is empty, the pending table is empty and no task is in
\* flight.
C24_LoopLeftClean ==
    (THREADCOUNT > 0 /\ pc \in {"kill", "finally", "done"} /\ aborted = "no") =>
        /\ tasklist = <<>>
        /\ pending = {}
        /\ tasksqueued = 0

\* The loop was just left after a run that executed a task and skipped
\* another.
C24_Witness ==
    /\ THREADCOUNT > 0
    /\ pc = "kill"
    /\ \E t \in Tasks : justbuilt[t] = 1
    /\ skipped # {}

\* The tasks that depend on themselves, directly or through other tasks.
OnCycle == {t \in Tasks : t \in Upstream(t, Len(DEPENDENCYQUEUE))}

\* C25: with N = 0, no action of a task on a dependency cycle is invoked, and
\* a run over a list with a cycle ends with the unsatisfiable-dependency
\* error.
C25_SequentialRejectsCycle ==
    THREADCOUNT = 0 =>
        /\ \A t \in OnCycle : invoked[t] = 0
        /\ (OnCycle # {} /\ pc = "done") => aborted = "Dependency problems"

\* The names a task list speaks of.
AllNames == TaskOutputs \cup UNION {Sources(t) : t \in Tasks}

\* C26: alternate deps count for readiness and not for staleness.  With
\* N > 0 a task with an alternate dep in pending is not ready and was neither
\* dispatched nor skipped; every NeedsBuild and JustBuilt call made carries
\* the outputs and the deps of a task and nothing more; and the arguments of
\* the calls for a task are the same whatever its alternate deps are.
C26_AltDepsReadinessOnly ==
    /\ (THREADCOUNT > 0 /\ pc # "start") =>
          \A t \in Tasks :
              DEPENDENCYQUEUE[t].altsources \cap pending # {} =>
                  /\ ~AllSourcesReady(DEPENDENCYQUEUE[t], pending)
                  /\ t \notin dispatched
                  /\ t \notin skipped
    /\ \A c \in cachecalls :
          \E t \in Tasks : c.outputs = Outputs(t) /\ c.deps = DEPENDENCYQUEUE[t].deps
    /\ \A t \in Tasks :
          \A alt \in SUBSET AllNames :
              LET other == [DEPENDENCYQUEUE[t] EXCEPT !.altsources = alt]
              IN  /\ NeedsBuildArgs(other) = NeedsBuildArgs(DEPENDENCYQUEUE[t])
                  /\ JustBuiltArgs(other) = JustBuiltArgs(DEPENDENCYQUEUE[t])

\* A task with an alternate dep was executed and recorded after the producer
\* of that dep, and another task still waits for its own alternate dep.
C26_Witness ==
    /\ THREADCOUNT > 0
    /\ \E t \in Tasks :
          /\ DEPENDENCYQUEUE[t].altsources \cap TaskOutputs # {}
          /\ justbuilt[t] = 1
    /\ \E u \in Tasks : DEPENDENCYQUEUE[u].altsources \cap pending # {}

\* The targets the abort message of the run names: the exit after the loop
\* formats tasklist[0][2] into its message, the exit on a failure sentinel has
\* a fixed text.
AbortMessageTargets ==
    IF aborted = "Dependency problems" /\ tasklist # <<>>
    THEN Outputs(tasklist[1])
    ELSE {}

\* C27: the failure result that reaches the main thread carries the task
\* that failed, and the abort on an action failure names a target of a task
\* whose action raised.
C27_FailureIdentifiesTask ==
    THREADCOUNT > 0 =>
        /\ \A i \in Sentinels : donequeue[i] \in raised
        /\ aborted = "Build process aborting." =>
              AbortMessageTargets \cap UNION {Outputs(t) : t \in raised} # {}

\* The tasks whose outputs were deleted from pending.
Completed == {t \in Tasks : Removals(t) > 0}

\* The names in the sources of t that no task produces.
LeafSources(t) == Sources(t) \ TaskOutputs

\* C28: with N > 0, a name that is no task's output is never in pending, a
\* task is ready as soon as the producers of all its task-produced sources
\* have completed, whatever leaf names it lists, and a run over tasks that
\* list leaf names only never meets the dependency abort or a remaining task
\* that is not ready.
C28_LeafNeverBlocks ==
    (THREADCOUNT > 0 /\ pc # "start") =>
        /\ pending \subseteq TaskOutputs
        /\ \A t \in Tasks :
              (\A n \in Sources(t) \cap TaskOutputs : Producers(n) \subseteq Completed)
                  => AllSourcesReady(DEPENDENCYQUEUE[t], pending)
        /\ (\A t \in Tasks : Sources(t) \subseteq LeafSources(t)) =>
              /\ aborted # "Dependency problems"
              /\ \A i \in 1..Len(tasklist) :
                    AllSourcesReady(DEPENDENCYQUEUE[tasklist[i]], pending)

\* A task that lists a leaf name as input, dep and alternate dep next to the
\* output of another task was dispatched once that task had completed.
C28_Witness ==
    /\ THREADCOUNT > 0
    /\ \E t \in dispatched :
          /\ DEPENDENCYQUEUE[t].inputs \cap TaskOutputs # {}
          /\ DEPENDENCYQUEUE[t].inputs \cap LeafSources(t) # {}
          /\ DEPENDENCYQUEUE[t].deps \cap LeafSources(t) # {}
          /\ DEPENDENCYQUEUE[t].altsources \cap LeafSources(t) # {}

\* C29: in any run the action of a task is invoked at most once and a task is
\* never both skipped and dispatched or executed; on a successful run every
\* task was either executed once or skipped, and no skip was made twice (a
\* second skip in ParallelMake would delete a missing key).
C29_ExecutedOrSkippedOnce ==
    /\ \A t \in Tasks :
          /\ invoked[t] <= 1
          /\ t \in skipped => t \notin dispatched /\ invoked[t] = 0 /\ needs[t] = "no"
          /\ invoked[t] = 1 => needs[t] = "yes"
    /\ aborted # "KeyError"
    /\ (pc = "done" /\ exitcode = 0) =>
          \A t \in Tasks :
              \/ invoked[t] = 1 /\ t \in finished /\ t \notin skipped
              \/ invoked[t] = 0 /\ t \in skipped

\* A successful run of ParallelMake over three tasks with a task executed
\* and a task skipped.
C29_Witness ==
    /\ THREADCOUNT > 0
    /\ pc = "done"
    /\ exitcode = 0
    /\ Len(DEPENDENCYQUEUE) = 3
    /\ \E t \in Tasks : invoked[t] = 1
    /\ \E t \in Tasks : t \in skipped

\* The number of times x is in the queue q.
CountOn(q, x) == Cardinality({i \in 1..Len(q) : q[i] = x})

\* The action of t has returned or raised.
ActionOver(t) == t \in ActionSucceeded \/ t \in raised

\* A dispatched task is at exactly one place: on taskqueue once, in one
\* worker, or over; its action is entered once it has left taskqueue; a task
\* whose action returned has one success item, on donequeue or taken; the
\* sentinels are as many as the actions that raised; nothing else is on the
\* queues.
TaskAtOnePlace ==
    THREADCOUNT > 0 =>
        /\ \A t \in Tasks :
              /\ CountOn(taskqueue, t) + Cardinality({w \in Executing : wtask[w] = t})
                    + (IF ActionOver(t) THEN 1 ELSE 0)
                    = (IF t \in dispatched THEN 1 ELSE 0)
              /\ invoked[t] = (IF t \in dispatched THEN 1 - CountOn(taskqueue, t) ELSE 0)
              /\ CountOn(donequeue, t) + justbuilt[t]
                    = (IF t \in ActionSucceeded THEN 1 ELSE 0)
              /\ ~(t \in ActionSucceeded /\ t \in raised)
        /\ Cardinality(Sentinels) + (IF failseen THEN 1 ELSE 0) = Cardinality(raised)

\* C30: every task put on taskqueue is taken by one worker and gives one item
\* on donequeue, the task itself or the failure sentinel; the timeout of the
\* first taskqueue.get loses, doubles or re-reports nothing; with fair
\* scheduling a task put on taskqueue is worked off unless the process has
\* ended on a failure before.
C30_OneResultPerTask ==
    /\ []TaskAtOnePlace
    /\ \A t \in 1..NT :
          (t \in Tasks /\ t \in dispatched) ~> (ActionOver(t) \/ ~Alive)

\* A worker whose timed get had found taskqueue empty took a task later and
\* its result was recorded; it is in the blocking get again, and a task
\* waits on taskqueue.
C30_Witness ==
    /\ THREADCOUNT = 1
    /\ Workers = {1}
    /\ wpc[1] = "get2"
    /\ \E t \in Tasks : justbuilt[t] = 1
    /\ TasksOnTaskQueue # {}

\* The tasks waiting on taskqueue, counted with repetition.
WaitingOnTaskQueue == Len(taskqueue) - Cardinality(StopSignals)

\* C31: with N > 0 and before any abort, tasksqueued is the number of tasks
\* waiting on taskqueue plus the number being executed by workers plus the
\* number of results, successes and sentinels, not yet taken from donequeue,
\* and it lies in 0..N.
C31_InFlightCount ==
    (THREADCOUNT > 0 /\ aborted = "no") =>
        /\ tasksqueued = WaitingOnTaskQueue + Cardinality(Executing) + Len(donequeue)
        /\ 0 <= tasksqueued
        /\ tasksqueued <= THREADCOUNT

\* Two tasks in flight: one in a worker, one as a result on donequeue.
C31_Witness ==
    /\ THREADCOUNT = 2
    /\ aborted = "no"
    /\ tasksqueued = 2
    /\ Cardinality(Executing) = 1
    /\ Len(donequeue) = 1

\* C32: with N > 0, a task whose action raised is never recorded and never
\* reported complete: no JustBuilt call was made for it, its outputs stay in
\* pending to the end of the run, and no task that depends on it was
\* dispatched or skipped.
C32_RaisedNeverCompletes ==
    THREADCOUNT > 0 =>
        \A t \in raised :
            /\ justbuilt[t] = 0
            /\ \A c \in cachecalls : c.fn = "JustBuilt" => c.outputs # Outputs(t)
            /\ t \notin finished
            /\ Outputs(t) \subseteq pending
            /\ \A u \in Tasks :
                  DependsOn(u, t) => u \notin dispatched /\ u \notin skipped

\* The build has aborted on the failure of a task on which a task of the
\* remaining list depends, and another task was recorded.
C32_Witness ==
    /\ THREADCOUNT > 0
    /\ pc = "done"
    /\ aborted = "Build process aborting."
    /\ \E t \in raised : \E u \in Range(tasklist) : DependsOn(u, t)
    /\ \E v \in Tasks : justbuilt[v] = 1

\* The tasks a run from the given file and cache state has to execute: those
\* stale before the run and, through the deps passed to NeedsBuild, those
\* downstream of them.
RECURSIVE MustBuild(_, _)
MustBuild(t, k) ==
    \/ stale[t]
    \/ /\ k > 0
       /\ \E d \in DEPENDENCYQUEUE[t].deps : \E p \in Producers(d) : MustBuild(p, k - 1)

ExpectedExecuted == {t \in Tasks : MustBuild(t, Len(DEPENDENCYQUEUE))}

\* The JustBuilt calls made so far.
JustBuiltRecords == {c \in cachecalls : c.fn = "JustBuilt"}

ExpectedRecords ==
    {CacheCall("JustBuilt", JustBuiltArgs(DEPENDENCYQUEUE[t])) : t \in ExpectedExecuted}

\* The run has executed, skipped and recorded what the task list and the
\* state before the run determine.
OutcomeAsExpected ==
    /\ {t \in Tasks : invoked[t] = 1} = ExpectedExecuted
    /\ skipped = Tasks \ ExpectedExecuted
    /\ JustBuiltRecords = ExpectedRecords

\* C33: for an acyclic task list and a given file and cache state, with N > 0
\* and no action raising, the tasks executed, the tasks skipped and the
\* JustBuilt records at the end are determined by the list and that state:
\* they are the same for every interleaving of the workers and every N.  On
\* the way no task outside that set is dispatched and none inside it is
\* skipped.
C33_OutcomeIndependentOfSchedule ==
    (THREADCOUNT > 0 /\ Acyclic) =>
        /\ dispatched \subseteq ExpectedExecuted
        /\ skipped \cap ExpectedExecuted = {}
        /\ JustBuiltRecords \subseteq ExpectedRecords
        /\ (pc = "done" /\ raised = {}) => (exitcode = 0 /\ OutcomeAsExpected)

\* The diamond with only A stale, run by two workers to a successful end: C
\* and D are rebuilt through their deps, and B, which has A only as input,
\* is skipped.
C33_Witness ==
    /\ THREADCOUNT = 2
    /\ DEPENDENCYQUEUE = Diamond
    /\ stale = <<TRUE, FALSE, FALSE, FALSE>>
    /\ pc = "done"
    /\ exitcode = 0
    /\ OutcomeAsExpected

\* Every task is registered after the producers of all its inputs and deps.
TopoOrder ==
    \A t \in Tasks :
        \A n \in DEPENDENCYQUEUE[t].inputs \cup DEPENDENCYQUEUE[t].deps :
            \A p \in Producers(n) : p < t

\* No task has alternate deps, as in the list built from TARGET_LIST.
NoAlternates == \A t \in Tasks : DEPENDENCYQUEUE[t].altsources = {}

\* C34: on a task list registered in an order where every task comes after the
\* producers of its inputs and deps, and from a given file and cache state,
\* SequentialMake (N = 0) and the parallel scheduler with N = 1 execute the
\* same tasks, skip the same tasks and make the same JustBuilt calls when no
\* action raises: both end with the sets the list and that state determine,
\* and neither invokes, skips or records anything else on the way.  With the
\* alternate deps empty the scheduler with N = 1 is never left without a ready
\* task, so its run does come to that end.
C34_SequentialMatchesOneWorker ==
    (THREADCOUNT \in {0, 1} /\ TopoOrder) =>
        /\ {t \in Tasks : invoked[t] > 0} \subseteq ExpectedExecuted
        /\ \A t \in Tasks : invoked[t] <= 1
        /\ skipped \cap ExpectedExecuted = {}
        /\ JustBuiltRecords \subseteq ExpectedRecords
        /\ (pc = "done" /\ raised = {}) => (exitcode = 0 /\ OutcomeAsExpected)
        /\ NoAlternates => ~Starved

\* SequentialMake has gone through a chain of three tasks in registration
\* order: the first was up to date and skipped, the second was stale and
\* executed, the third was rebuilt because its dep had been.
C34_Witness ==
    /\ THREADCOUNT = 0
    /\ TopoOrder
    /\ Len(DEPENDENCYQUEUE) = 3
    /\ DEPENDENCYQUEUE[2].deps = {1}
    /\ DEPENDENCYQUEUE[3].deps = {2}
    /\ stale = <<FALSE, TRUE, FALSE>>
    /\ pc = "done"
    /\ exitcode = 0
    /\ skipped = {1}
    /\ invoked = <<0, 1, 1>>
    /\ OutcomeAsExpected

InRegistrationOrder(s) == \A i, j \in 1..Len(s) : i < j => s[i] < s[j]

\* The tasks neither dispatched nor skipped so far.
Unsettled == Tasks \ (dispatched \cup skipped)

\* The tasks of the remaining list: during a scan, those already deferred to
\* extras and those the for loop has not come to yet.
StillRemaining ==
    IF pc = "scan"
    THEN Range(extras) \cup {tasklist[j] : j \in idx..Len(tasklist)}
    ELSE Range(tasklist)

\* The positions of the task queue holding a task dispatched by the scan under
\* way.
PutByThisScan ==
    {i \in 1..Len(taskqueue) :
        /\ pc = "scan"
        /\ \E j \in 1..(idx - 1) : tasklist[j] = taskqueue[i]}

\* C36: with N > 0, the remaining list and the extras list under construction
\* are always in registration order, the remaining tasks are exactly the tasks
\* neither dispatched nor skipped, and the tasks the scan under way has
\* dispatched sit at the end of the task queue in registration order.
C36_ScanKeepsOrder ==
    THREADCOUNT > 0 =>
        /\ InRegistrationOrder(tasklist)
        /\ InRegistrationOrder(extras)
        /\ (pc = "scan" /\ extras # <<>>) =>
              \A j \in idx..Len(tasklist) : extras[Len(extras)] < tasklist[j]
        /\ StillRemaining = Unsettled
        /\ \A i \in PutByThisScan :
              \A k \in (i + 1)..Len(taskqueue) :
                  k \in PutByThisScan /\ taskqueue[i] < taskqueue[k]

\* Two workers, a scan under way that has put two tasks on the task queue and
\* deferred a third.
C36_Witness ==
    /\ THREADCOUNT = 2
    /\ pc = "scan"
    /\ Cardinality(PutByThisScan) = 2
    /\ extras # <<>>

====
